---- MODULE Spec2Model ----
(***************************************************************************)
(* Model of the mama-pack backend canister (src/mama-pack-backend/src/     *)
(* lib.rs): the id counter cell, the two stable maps, the update and query *)
(* handlers and the two classification functions.                          *)
(*                                                                         *)
(* Conventions.                                                            *)
(*  - Timestamps are counted in whole days (one unit = 86_400 * 10^9 ns,   *)
(*    the factor of lib.rs:382); a week is 7 units.  The u64 range holds   *)
(*    U64_DAYS whole days, so u64 overflow of day-granular timestamps is   *)
(*    exact in this unit.                                                  *)
(*  - A Rust String whose characters matter is a sequence of one-character *)
(*    strings; a String that is only compared is a TLA+ string.            *)
(*  - An f32 is [nan |-> BOOLEAN, tenths |-> Int]: the number tenths / 10, *)
(*    or NaN.                                                              *)
(*  - A Result is a record with field err ("none" for Ok) and field val.   *)
(***************************************************************************)
EXTENDS Integers, Sequences, FiniteSets, TLC

VARIABLES
    counter,     \* ID_COUNTER: the u64 held by the cell
    profiles,    \* PROFILE_STORAGE: function id -> MotherProfile
    records,     \* HEALTH_RECORD_STORAGE: function id -> HealthRecord
    now,         \* ic_cdk::api::time(), constant within one call
    ret,         \* what the last update call returned: [op, err, val]
    allocated,   \* the ids returned by generate_new_id, in call order
    fn,          \* the last application of a pure function: [f, in, out]
    set_fails,   \* whether Cell::set on the counter cell returns Err
    running      \* the add_health_record in progress, statement by statement:
                 \* [pc, payload, before, id, record], pc = 0 when there is none

vars == <<counter, profiles, records, now, ret, allocated, fn, set_fails, running>>

----------------------------------------------------------------------------
(* Bounds of the model *)

MaxId == 4          \* creations stop when the counter reaches MaxId
MaxTick == 1        \* time advances at most MaxTick days
StartTime == 1      \* the time of the first call

(* Program constants, in the model's units *)

Week == 7                  \* 7 * 24 * 60 * 60 * 1_000_000_000 ns, in days
U64_DAYS == 213504         \* least d with d * 86_400 * 10^9 > u64::MAX
I32_MAX == 2147483647
I32_MIN == -I32_MAX - 1
MIN_AGE == 13
MAX_AGE == 65

----------------------------------------------------------------------------
(* Strings *)

Digits == <<"0", "1", "2", "3", "4", "5", "6", "7", "8", "9">>
UpperAlpha == <<"A", "B", "C", "D", "E", "F", "G", "H", "I", "J", "K", "L", "M",
                "N", "O", "P", "Q", "R", "S", "T", "U", "V", "W", "X", "Y", "Z">>
LowerAlpha == <<"a", "b", "c", "d", "e", "f", "g", "h", "i", "j", "k", "l", "m",
                "n", "o", "p", "q", "r", "s", "t", "u", "v", "w", "x", "y", "z">>

IsDigit(c) == \E i \in 1..10 : Digits[i] = c
DigitVal(c) == (CHOOSE i \in 1..10 : Digits[i] = c) - 1
IsWhitespace(c) == c \in {" ", "\t", "\n", "\r"}

\* char::to_lowercase on the ASCII range
LowerChar(c) ==
    IF \E i \in 1..26 : UpperAlpha[i] = c
    THEN LowerAlpha[CHOOSE i \in 1..26 : UpperAlpha[i] = c]
    ELSE c

to_lowercase(s) == [i \in 1..Len(s) |-> LowerChar(s[i])]

\* str::contains(&str)
contains(s, pat) ==
    \E i \in 0..(Len(s) - Len(pat)) : SubSeq(s, i + 1, i + Len(pat)) = pat

\* str::trim
trim(s) ==
    IF \A i \in 1..Len(s) : IsWhitespace(s[i])
    THEN <<>>
    ELSE LET first == CHOOSE i \in 1..Len(s) :
                        /\ ~IsWhitespace(s[i])
                        /\ \A j \in 1..(i - 1) : IsWhitespace(s[j])
             last == CHOOSE i \in 1..Len(s) :
                        /\ ~IsWhitespace(s[i])
                        /\ \A j \in (i + 1)..Len(s) : IsWhitespace(s[j])
         IN SubSeq(s, first, last)

\* str::split(char).collect(): the pieces between the occurrences of d
RECURSIVE split(_, _)
split(s, d) ==
    IF \A i \in 1..Len(s) : s[i] # d
    THEN <<s>>
    ELSE LET i == CHOOSE k \in 1..Len(s) :
                    s[k] = d /\ \A j \in 1..(k - 1) : s[j] # d
         IN <<SubSeq(s, 1, i - 1)>> \o split(SubSeq(s, i + 1, Len(s)), d)

\* The digits of str::parse::<i32>, accumulated with checked arithmetic:
\* upwards for a non-negative number, downwards for a negative one.
RECURSIVE parse_digits(_, _, _)
parse_digits(s, acc, neg) ==
    IF s = <<>> THEN [ok |-> TRUE, v |-> acc]
    ELSE IF ~IsDigit(Head(s)) THEN [ok |-> FALSE, v |-> 0]
    ELSE LET d == DigitVal(Head(s)) IN
         IF neg
         THEN IF acc < (I32_MIN + d + 9) \div 10
              THEN [ok |-> FALSE, v |-> 0]
              ELSE parse_digits(Tail(s), acc * 10 - d, neg)
         ELSE IF acc > (I32_MAX - d) \div 10
              THEN [ok |-> FALSE, v |-> 0]
              ELSE parse_digits(Tail(s), acc * 10 + d, neg)

\* str::parse::<i32>: an optional sign, then at least one digit, only digits
parse_i32(s) ==
    IF s = <<>> THEN [ok |-> FALSE, v |-> 0]
    ELSE IF Head(s) \in {"+", "-"}
         THEN IF Tail(s) = <<>> THEN [ok |-> FALSE, v |-> 0]
              ELSE parse_digits(Tail(s), 0, Head(s) = "-")
         ELSE parse_digits(s, 0, FALSE)

\* f32 comparisons: every comparison with NaN is false
f32_lt(w, tenths) == ~w.nan /\ w.tenths < tenths
f32_gt(w, tenths) == ~w.nan /\ w.tenths > tenths

F32(tenths) == [nan |-> FALSE, tenths |-> tenths]
NaN == [nan |-> TRUE, tenths |-> 0]

----------------------------------------------------------------------------
(* Classification *)

critical_symptoms ==
    << <<"s", "e", "v", "e", "r", "e">>,
       <<"e", "m", "e", "r", "g", "e", "n", "c", "y">>,
       <<"c", "r", "i", "t", "i", "c", "a", "l">>,
       <<"b", "l", "e", "e", "d", "i", "n", "g">>,
       <<"s", "e", "i", "z", "u", "r", "e">>,
       <<"u", "n", "c", "o", "n", "s", "c", "i", "o", "u", "s">>,
       <<"f", "e", "v", "e", "r">>,
       <<"h", "e", "a", "d", "a", "c", "h", "e">> >>

concerning_symptoms ==
    << <<"n", "a", "u", "s", "e", "a">>,
       <<"v", "o", "m", "i", "t", "i", "n", "g">>,
       <<"s", "w", "e", "l", "l", "i", "n", "g">>,
       <<"p", "a", "i", "n">>,
       <<"d", "i", "s", "c", "o", "m", "f", "o", "r", "t">>,
       <<"f", "a", "t", "i", "g", "u", "e">>,
       <<"d", "i", "z", "z", "i", "n", "e", "s", "s">> >>

\* symptoms.iter().any(|s| keywords.iter().any(|cs| s.to_lowercase().contains(cs)))
any_symptom(symptoms, keywords) ==
    \E i \in 1..Len(symptoms) :
        \E k \in 1..Len(keywords) :
            contains(to_lowercase(symptoms[i]), keywords[k])

\* The blood-pressure block of analyze_health_status: TRUE when it returns Critical
bp_critical(blood_pressure) ==
    LET bp_parts == split(blood_pressure, "/") IN
    /\ Len(bp_parts) = 2
    /\ LET systolic == parse_i32(trim(bp_parts[1]))
           diastolic == parse_i32(trim(bp_parts[2]))
       IN /\ systolic.ok
          /\ diastolic.ok
          /\ \/ systolic.v >= 140
             \/ diastolic.v >= 90
             \/ systolic.v < 90
             \/ diastolic.v < 60

\* analyze_health_status looking at the symptoms before the weight
analyze_health_status_symptoms_first(record) ==
    IF bp_critical(record.blood_pressure) THEN "Critical"
    ELSE IF any_symptom(record.symptoms, critical_symptoms) THEN "Critical"
    ELSE IF f32_lt(record.weight, 450) \/ f32_gt(record.weight, 1000)
         THEN "NeedsAttention"
    ELSE IF any_symptom(record.symptoms, concerning_symptoms) THEN "NeedsAttention"
    ELSE "Normal"

analyze_health_status(record) ==
    IF bp_critical(record.blood_pressure) THEN "Critical"
    ELSE IF f32_lt(record.weight, 450) \/ f32_gt(record.weight, 1000)
         THEN "NeedsAttention"
    ELSE IF any_symptom(record.symptoms, critical_symptoms) THEN "Critical"
    ELSE IF any_symptom(record.symptoms, concerning_symptoms) THEN "NeedsAttention"
    ELSE "Normal"

\* calculate_pregnancy_stage with the second arm written 1..=14
calculate_pregnancy_stage_late_boundary(edd, t) ==
    LET time_diff == IF edd > t THEN edd - t ELSE 0
        weeks_to_edd == time_diff \div Week
    IN IF weeks_to_edd = 0 THEN "PostPartum"
       ELSE IF weeks_to_edd \in 1..14 THEN "ThirdTrimester"
       ELSE IF weeks_to_edd \in 15..27 THEN "SecondTrimester"
       ELSE "FirstTrimester"

calculate_pregnancy_stage(edd, t) ==
    LET time_diff == IF edd > t THEN edd - t ELSE 0
        weeks_to_edd == time_diff \div Week
    IN IF weeks_to_edd = 0 THEN "PostPartum"
       ELSE IF weeks_to_edd \in 1..13 THEN "ThirdTrimester"
       ELSE IF weeks_to_edd \in 14..27 THEN "SecondTrimester"
       ELSE "FirstTrimester"

----------------------------------------------------------------------------
(* The stable structures *)

\* StableBTreeMap::init on an empty region
EmptyMap == [k \in {} |-> k]

\* StableBTreeMap::insert: adds the entry or overwrites the one under k
insert(storage, k, v) ==
    [x \in DOMAIN storage \cup {k} |-> IF x = k THEN v ELSE storage[x]]

\* StableBTreeMap::get
get(storage, k) ==
    IF k \in DOMAIN storage
    THEN [some |-> TRUE, v |-> storage[k]]
    ELSE [some |-> FALSE, v |-> k]

RECURSIVE ascending(_)
ascending(S) ==
    IF S = {} THEN <<>>
    ELSE LET m == CHOOSE x \in S : \A y \in S : x <= y
         IN <<m>> \o ascending(S \ {m})

\* StableBTreeMap::iter: the values in ascending key order
iter(storage) ==
    LET keys == ascending(DOMAIN storage)
    IN [i \in 1..Len(keys) |-> storage[keys[i]]]

\* Cell::set returning the value it stored
Cell_set_returns_stored(cell, value) == [cell |-> value, err |-> "none", val |-> value]

\* Cell::set: stores the value and returns Ok(previous value), or returns
\* Err and stores nothing.  The cell's page is allocated by Cell::init and a
\* u64 is 8 bytes, so the canister itself never makes set fail: set_fails is
\* FALSE unless a fault is injected.
Cell_set(cell, value) ==
    IF set_fails
    THEN [cell |-> cell, err |-> "ValueTooLarge", val |-> cell]
    ELSE [cell |-> value, err |-> "none", val |-> cell]

\* generate_new_id computing the next id without writing it to the cell
generate_new_id_read_only(cell) ==
    [cell |-> cell, err |-> "none", val |-> cell + 1]

\* generate_new_id returning the value it wrote instead of the one it replaced
generate_new_id_returns_new(cell) ==
    [cell |-> cell + 1, err |-> "none", val |-> cell + 1]

\* generate_new_id writing the current value back: set(current_value)
generate_new_id_no_increment(cell) ==
    Cell_set(cell, cell)

\* generate_new_id keeping the incremented value although the write failed
generate_new_id_counts_failed_write(cell) ==
    LET current_value == cell
        r == Cell_set(cell, current_value + 1)
    IN IF r.err # "none"
       THEN [cell |-> current_value + 1, err |-> "SystemError", val |-> r.val]
       ELSE r

generate_new_id(cell) ==
    LET current_value == cell
        r == Cell_set(cell, current_value + 1)
    IN IF r.err # "none"
       THEN [cell |-> r.cell, err |-> "SystemError", val |-> r.val]
       ELSE r

----------------------------------------------------------------------------
(* Validation *)

valid_blood_types == {"A+", "A-", "B+", "B-", "AB+", "AB-", "O+", "O-"}

\* validate_mother_profile with the age bounds written <= 13 and >= 65
validate_mother_profile_exclusive_age(payload, t) ==
    IF payload.age <= MIN_AGE \/ payload.age >= MAX_AGE THEN "InvalidInput"
    ELSE IF payload.blood_type \notin valid_blood_types THEN "InvalidInput"
    ELSE IF payload.expected_delivery_date <= t THEN "InvalidInput"
    ELSE IF trim(payload.emergency_contact) = <<>> THEN "InvalidInput"
    ELSE "none"

\* "none" for Ok(()), else the error returned
validate_mother_profile(payload, t) ==
    IF payload.age < MIN_AGE \/ payload.age > MAX_AGE THEN "InvalidInput"
    ELSE IF payload.blood_type \notin valid_blood_types THEN "InvalidInput"
    ELSE IF payload.expected_delivery_date <= t THEN "InvalidInput"
    ELSE IF trim(payload.emergency_contact) = <<>> THEN "InvalidInput"
    ELSE "none"

----------------------------------------------------------------------------
(* The bounded codec: the length of Encode!(self), the Candid encoding of   *)
(* one value: "DIDL", the type table, the argument types, then the fields.  *)
(* Every character of the model's strings is ASCII, one byte in UTF-8.      *)

\* BoundedStorable::MAX_SIZE of MotherProfile and of HealthRecord
MAX_SIZE == 2048

\* The bytes of an unsigned LEB128 number (lengths here stay below 2^21)
leb128_len(n) ==
    IF n < 128 THEN 1 ELSE IF n < 16384 THEN 2 ELSE 3

\* A String: its length in LEB128, then its bytes
text_len(string) == leb128_len(Len(string)) + Len(string)

RECURSIVE texts_len(_)
texts_len(strings) ==
    IF strings = <<>> THEN 0
    ELSE text_len(Head(strings)) + texts_len(Tail(strings))

\* A Vec<String>: the number of its elements in LEB128, then each element
vec_text_len(strings) == leb128_len(Len(strings)) + texts_len(strings)

\* MotherProfile before its fields: "DIDL" (4), the number of types (1), the
\* record of 11 fields (65: the hash of "id" takes 3 bytes, of "age" 4, of
\* the others 5, each followed by a type byte), the variants PregnancyStage
\* (26) and HealthStatus (20), vec text (2), one argument and its type (2)
PROFILE_HEADER_LEN == 120

\* The fields of MotherProfile of fixed length: id, expected_delivery_date,
\* created_at and last_checkup (nat64, 8 each), age (nat8, 1), stage and
\* health_status (the index of a unit variant, 1 each)
PROFILE_FIXED_LEN == 35

\* Encode!(self) of a MotherProfile, in bytes
MotherProfile_to_bytes_len(profile) ==
    PROFILE_HEADER_LEN + PROFILE_FIXED_LEN
    + text_len(profile.name)
    + text_len(profile.blood_type)
    + vec_text_len(profile.medical_history)
    + text_len(profile.emergency_contact)

\* HealthRecord before its fields: "DIDL" (4), the number of types (1), the
\* record of 9 fields (53), the variant HealthStatus (20), vec text (2), one
\* argument and its type (2)
RECORD_HEADER_LEN == 82

\* The fields of HealthRecord of fixed length: id, mother_id, date and
\* next_appointment (nat64, 8 each), weight (float32, 4), health_status (1)
RECORD_FIXED_LEN == 37

\* Encode!(self) of a HealthRecord, in bytes
HealthRecord_to_bytes_len(record) ==
    RECORD_HEADER_LEN + RECORD_FIXED_LEN
    + text_len(record.blood_pressure)
    + vec_text_len(record.symptoms)
    + text_len(record.notes)

----------------------------------------------------------------------------
(* The handlers *)

\* What an update call returned: the handler, Ok ("none") or the error, and
\* the value under Ok
Response(op, err, val) == [op |-> op, err |-> err, val |-> val]

\* An update call that returns Err without an id: the cell and the maps as
\* they are at the return
Rejected(cell, profile_storage, record_storage, op, err) ==
    [counter |-> cell, profiles |-> profile_storage, records |-> record_storage,
     ids |-> <<>>, ret |-> Response(op, err, <<>>)]

\* An update call that traps: StableBTreeMap::insert panics on a value longer
\* than MAX_SIZE, and the writes of a call that traps are rolled back
Trapped(cell, profile_storage, record_storage, op) ==
    [counter |-> cell, profiles |-> profile_storage, records |-> record_storage,
     ids |-> <<>>, ret |-> Response(op, "trap", <<>>)]

\* create_mother_profile called at time t with the cell and the maps as given:
\* the cell and the maps it leaves, the ids it took and what it returns
create_mother_profile_call(cell, profile_storage, record_storage, t, payload) ==
    LET v == validate_mother_profile(payload, t) IN
    IF v # "none"
    THEN Rejected(cell, profile_storage, record_storage, "create_mother_profile", v)
    ELSE LET g == generate_new_id(cell) IN
         IF g.err # "none"
         THEN Rejected(g.cell, profile_storage, record_storage,
                       "create_mother_profile", g.err)
         ELSE LET id == g.val
                  stage == calculate_pregnancy_stage(payload.expected_delivery_date, t)
                  profile ==
                      [id |-> id,
                       name |-> payload.name,
                       age |-> payload.age,
                       blood_type |-> payload.blood_type,
                       expected_delivery_date |-> payload.expected_delivery_date,
                       stage |-> stage,
                       health_status |-> "Normal",
                       created_at |-> t,
                       last_checkup |-> t,
                       medical_history |-> payload.medical_history,
                       emergency_contact |-> payload.emergency_contact]
              IN IF MotherProfile_to_bytes_len(profile) > MAX_SIZE
                 THEN Trapped(cell, profile_storage, record_storage,
                              "create_mother_profile")
                 ELSE [counter |-> g.cell,
                       profiles |-> insert(profile_storage, id, profile),
                       records |-> record_storage,
                       ids |-> <<id>>,
                       ret |-> Response("create_mother_profile", "none", profile)]

\* An update call as a step: it runs to completion at the current time; the
\* model stops allocating when the counter has reached MaxId
UpdateCall(r) ==
    /\ r.ids # <<>> => counter < MaxId
    /\ counter' = r.counter
    /\ profiles' = r.profiles
    /\ records' = r.records
    /\ allocated' = allocated \o r.ids
    /\ ret' = r.ret
    /\ UNCHANGED <<now, fn, set_fails, running>>

create_mother_profile(payload) ==
    UpdateCall(create_mother_profile_call(counter, profiles, records, now, payload))

\* update_mother_status without the assignment to last_checkup
update_mother_status_keeps_checkup(storage, mother_id, health_status, t) ==
    LET found == get(storage, mother_id) IN
    IF found.some
    THEN [storage |-> insert(storage, mother_id,
                             [found.v EXCEPT !.health_status = health_status]),
          err |-> "none"]
    ELSE [storage |-> storage, err |-> "NotFound"]

\* update_mother_status also refreshing the stage from the delivery date
update_mother_status_recomputes_stage(storage, mother_id, health_status, t) ==
    LET found == get(storage, mother_id) IN
    IF found.some
    THEN [storage |-> insert(storage, mother_id,
                             [found.v EXCEPT
                                 !.health_status = health_status,
                                 !.last_checkup = t,
                                 !.stage = calculate_pregnancy_stage(
                                               found.v.expected_delivery_date, t)]),
          err |-> "none"]
    ELSE [storage |-> storage, err |-> "NotFound"]

\* update_mother_status leaving a Critical profile Critical
update_mother_status_keeps_critical(storage, mother_id, health_status, t) ==
    LET found == get(storage, mother_id) IN
    IF found.some
    THEN [storage |-> insert(storage, mother_id,
                             [found.v EXCEPT
                                 !.health_status =
                                     IF found.v.health_status = "Critical"
                                     THEN "Critical" ELSE health_status,
                                 !.last_checkup = t]),
          err |-> "none"]
    ELSE [storage |-> storage, err |-> "NotFound"]

\* The profile map after update_mother_status, and its result
update_mother_status(storage, mother_id, health_status, t) ==
    LET found == get(storage, mother_id) IN
    IF found.some
    THEN [storage |-> insert(storage, mother_id,
                             [found.v EXCEPT !.health_status = health_status,
                                             !.last_checkup = t]),
          err |-> "none"]
    ELSE [storage |-> storage, err |-> "NotFound"]

\* add_health_record inserting the record under its mother's id
add_health_record_from_id_keyed_by_mother(cell, profile_storage, record_storage, t, payload) ==
    LET g == generate_new_id(cell) IN
    IF g.err # "none"
    THEN Rejected(g.cell, profile_storage, record_storage, "add_health_record", g.err)
    ELSE LET id == g.val
             health_status == analyze_health_status(payload)
             record ==
                 [id |-> id,
                  mother_id |-> payload.mother_id,
                  date |-> t,
                  blood_pressure |-> payload.blood_pressure,
                  weight |-> payload.weight,
                  symptoms |-> payload.symptoms,
                  notes |-> payload.notes,
                  next_appointment |-> payload.next_appointment,
                  health_status |-> health_status]
             u == update_mother_status(profile_storage, payload.mother_id,
                                       health_status, t)
         IN IF u.err # "none"
            THEN [counter |-> g.cell, profiles |-> u.storage,
                  records |-> record_storage, ids |-> <<id>>,
                  ret |-> Response("add_health_record", u.err, <<>>)]
            ELSE [counter |-> g.cell, profiles |-> u.storage,
                  records |-> insert(record_storage, payload.mother_id, record),
                  ids |-> <<id>>,
                  ret |-> Response("add_health_record", "none", record)]

\* add_health_record from the id allocation on
add_health_record_from_id(cell, profile_storage, record_storage, t, payload) ==
    LET g == generate_new_id(cell) IN
    IF g.err # "none"
    THEN Rejected(g.cell, profile_storage, record_storage, "add_health_record", g.err)
    ELSE LET id == g.val
             health_status == analyze_health_status(payload)
             record ==
                 [id |-> id,
                  mother_id |-> payload.mother_id,
                  date |-> t,
                  blood_pressure |-> payload.blood_pressure,
                  weight |-> payload.weight,
                  symptoms |-> payload.symptoms,
                  notes |-> payload.notes,
                  next_appointment |-> payload.next_appointment,
                  health_status |-> health_status]
             u == update_mother_status(profile_storage, payload.mother_id,
                                       health_status, t)
         IN IF u.err # "none"
            THEN [counter |-> g.cell, profiles |-> u.storage,
                  records |-> record_storage, ids |-> <<id>>,
                  ret |-> Response("add_health_record", u.err, <<>>)]
            ELSE IF HealthRecord_to_bytes_len(record) > MAX_SIZE
            THEN Trapped(cell, profile_storage, record_storage, "add_health_record")
            ELSE [counter |-> g.cell, profiles |-> u.storage,
                  records |-> insert(record_storage, id, record), ids |-> <<id>>,
                  ret |-> Response("add_health_record", "none", record)]

\* add_health_record allocating the id before it looks the mother up
add_health_record_call_alloc_first(cell, profile_storage, record_storage, t, payload) ==
    IF payload.mother_id \notin DOMAIN profile_storage
    THEN LET g == generate_new_id(cell) IN
         [counter |-> g.cell, profiles |-> profile_storage,
          records |-> record_storage, ids |-> <<g.val>>,
          ret |-> Response("add_health_record", "NotFound", <<>>)]
    ELSE add_health_record_from_id(cell, profile_storage, record_storage, t, payload)

\* add_health_record without the existence check
add_health_record_call_unchecked(cell, profile_storage, record_storage, t, payload) ==
    add_health_record_from_id(cell, profile_storage, record_storage, t, payload)

\* add_health_record called at time t with the cell and the maps as given
add_health_record_call(cell, profile_storage, record_storage, t, payload) ==
    IF payload.mother_id \notin DOMAIN profile_storage
    THEN Rejected(cell, profile_storage, record_storage, "add_health_record",
                  "NotFound")
    ELSE add_health_record_from_id(cell, profile_storage, record_storage, t, payload)

add_health_record(payload) ==
    UpdateCall(add_health_record_call(counter, profiles, records, now, payload))

\* A query handler takes the stores by borrow() and replies: the cell and
\* the maps as it leaves them, and its reply
query_call(cell, profile_storage, record_storage, reply) ==
    [counter |-> cell, profiles |-> profile_storage, records |-> record_storage,
     reply |-> reply]

\* A query call as a step
Query(q) ==
    /\ q.reply.err \in {"none", "NotFound", "trap"}
    /\ counter' = q.counter
    /\ profiles' = q.profiles
    /\ records' = q.records
    /\ UNCHANGED <<now, ret, allocated, fn, set_fails, running>>

mother_profile(storage, id) ==
    LET found == get(storage, id) IN
    IF found.some
    THEN [err |-> "none", val |-> found.v]
    ELSE [err |-> "NotFound", val |-> <<>>]

\* get_mother_profile taking the profile out of the map: remove(&id) for
\* get(&id)
get_mother_profile_call_removes(cell, profile_storage, record_storage, id) ==
    [counter |-> cell,
     profiles |-> [k \in DOMAIN profile_storage \ {id} |-> profile_storage[k]],
     records |-> record_storage,
     reply |-> mother_profile(profile_storage, id)]

get_mother_profile_call(cell, profile_storage, record_storage, id) ==
    query_call(cell, profile_storage, record_storage,
               mother_profile(profile_storage, id))

get_mother_profile(id) ==
    Query(get_mother_profile_call(counter, profiles, records, id))

\* get_mother_health_records returning Ok with the empty list
mother_health_records_empty_ok(storage, mother_id) ==
    [err |-> "none",
     val |-> SelectSeq(iter(storage), LAMBDA record : record.mother_id = mother_id)]

mother_health_records(storage, mother_id) ==
    LET found == SelectSeq(iter(storage),
                           LAMBDA record : record.mother_id = mother_id)
    IN IF found = <<>>
       THEN [err |-> "NotFound", val |-> <<>>]
       ELSE [err |-> "none", val |-> found]

get_mother_health_records_call(cell, profile_storage, record_storage, mother_id) ==
    query_call(cell, profile_storage, record_storage,
               mother_health_records(record_storage, mother_id))

get_mother_health_records(mother_id) ==
    Query(get_mother_health_records_call(counter, profiles, records, mother_id))

high_risk_profiles(storage) ==
    SelectSeq(iter(storage), LAMBDA profile : profile.health_status = "Critical")

get_high_risk_profiles_call(cell, profile_storage, record_storage) ==
    query_call(cell, profile_storage, record_storage,
               [err |-> "none", val |-> high_risk_profiles(profile_storage)])

get_high_risk_profiles ==
    Query(get_high_risk_profiles_call(counter, profiles, records))

\* get_critical_cases matching the wrong variant
critical_cases_normal(storage) ==
    SelectSeq(iter(storage), LAMBDA profile : profile.health_status = "Normal")

critical_cases(storage) ==
    SelectSeq(iter(storage), LAMBDA profile : profile.health_status = "Critical")

get_critical_cases_call(cell, profile_storage, record_storage) ==
    query_call(cell, profile_storage, record_storage,
               [err |-> "none", val |-> critical_cases(profile_storage)])

get_critical_cases ==
    Query(get_critical_cases_call(counter, profiles, records))

\* now + days * 24 * 60 * 60 * 1_000_000_000 in u64, in days: the sum when it
\* fits, else what the wrapping build computes (exact below 56 wraps)
upcoming_target(t, days) ==
    IF t + days < U64_DAYS THEN t + days ELSE (t + days) % U64_DAYS

\* get_upcoming_appointments with the upper comparison written <
upcoming_filter_exclusive(record_storage, profile_storage, t, target) ==
    LET due == SelectSeq(iter(record_storage),
                         LAMBDA record : /\ record.next_appointment > t
                                         /\ record.next_appointment < target)
        joined == SelectSeq(due,
                            LAMBDA record : get(profile_storage, record.mother_id).some)
    IN [i \in 1..Len(joined) |->
           <<get(profile_storage, joined[i].mother_id).v, joined[i]>>]

\* The filter and the filter_map of get_upcoming_appointments
upcoming_filter(record_storage, profile_storage, t, target) ==
    LET due == SelectSeq(iter(record_storage),
                         LAMBDA record : /\ record.next_appointment > t
                                         /\ record.next_appointment <= target)
        joined == SelectSeq(due,
                            LAMBDA record : get(profile_storage, record.mother_id).some)
    IN [i \in 1..Len(joined) |->
           <<get(profile_storage, joined[i].mother_id).v, joined[i]>>]

\* overflow_checks: whether the build traps on integer overflow
upcoming_appointments(record_storage, profile_storage, t, days, overflow_checks) ==
    IF t + days >= U64_DAYS /\ overflow_checks
    THEN [err |-> "trap", val |-> <<>>]
    ELSE [err |-> "none",
          val |-> upcoming_filter(record_storage, profile_storage, t,
                                  upcoming_target(t, days))]

get_upcoming_appointments_call(cell, profile_storage, record_storage, t, days,
                               overflow_checks) ==
    query_call(cell, profile_storage, record_storage,
               upcoming_appointments(record_storage, profile_storage, t, days,
                                     overflow_checks))

get_upcoming_appointments(days, overflow_checks) ==
    Query(get_upcoming_appointments_call(counter, profiles, records, now, days,
                                         overflow_checks))

\* Time passes between two calls
Tick ==
    /\ now < StartTime + MaxTick
    /\ now' = now + 1
    /\ UNCHANGED <<counter, profiles, records, ret, allocated, fn, set_fails, running>>

----------------------------------------------------------------------------
(* The calls of the model *)

BP_150_95 == <<"1", "5", "0", "/", "9", "5">>
BP_120_80 == <<"1", "2", "0", "/", "8", "0">>

Contact == <<"c">>
PaddedContact == <<" ", "c", " ">>

\* create_mother_profile payloads at time t: one that passes validation at
\* the upper age bound with a padded contact, due in exactly 28 weeks (a day
\* later the same date is 27 weeks away), and one or more failing each check
ValidProfilePayloads(t) ==
    { [name |-> <<"B", "e", "a">>, age |-> MAX_AGE, blood_type |-> "O-",
       expected_delivery_date |-> t + 28 * Week,
       medical_history |-> <<<<"a", "s", "t", "h", "m", "a">>>>, emergency_contact |-> PaddedContact] }

\* further payloads that pass validation: the lower age bound with the
\* earliest accepted delivery date, and the other blood types
MoreValidProfilePayloads(t) ==
    { [name |-> <<"A", "n", "n">>, age |-> a, blood_type |-> b,
       expected_delivery_date |-> t + 1,
       medical_history |-> <<>>, emergency_contact |-> Contact] :
      a \in {MIN_AGE, MIN_AGE + 1}, b \in valid_blood_types }

InvalidProfilePayloads(t) ==
    LET base == [name |-> <<"A", "n", "n">>, age |-> MIN_AGE, blood_type |-> "A+",
                 expected_delivery_date |-> t + 1,
                 medical_history |-> <<>>, emergency_contact |-> Contact]
    IN { [base EXCEPT !.age = a] : a \in {MIN_AGE - 1, MAX_AGE + 1} }
       \cup { [base EXCEPT !.blood_type = b] : b \in {"a+"} }
       \cup { [base EXCEPT !.expected_delivery_date = e] : e \in {t, t - 1} }
       \cup { [base EXCEPT !.emergency_contact = c] : c \in {<<>>, <<" ", "\t">>} }

ProfilePayloads(t) == ValidProfilePayloads(t) \cup InvalidProfilePayloads(t)

\* a text of MAX_SIZE bytes
LongText == [i \in 1..MAX_SIZE |-> "a"]

\* payloads that pass validation and carry a text of MAX_SIZE bytes: as the
\* name, as one entry of the medical history
OversizeProfilePayloads(t) ==
    LET base == [name |-> <<"A", "n", "n">>, age |-> MIN_AGE, blood_type |-> "A+",
                 expected_delivery_date |-> t + 1,
                 medical_history |-> <<>>, emergency_contact |-> Contact]
    IN { [base EXCEPT !.name = LongText],
         [base EXCEPT !.medical_history = <<LongText>>] }

\* add_health_record payloads at time t: one classified Critical and due
\* tomorrow, one classified Normal and due today, for every mother id
HealthRecordPayloads(t) ==
    { [mother_id |-> m, blood_pressure |-> h.bp, weight |-> h.w,
       symptoms |-> h.s, notes |-> <<>>, next_appointment |-> h.na] :
      m \in 0..(MaxId - 1),
      h \in { [bp |-> BP_150_95, w |-> F32(700), s |-> <<>>, na |-> t + 1],
              [bp |-> BP_120_80, w |-> F32(700), s |-> <<>>, na |-> t] } }

\* add_health_record payloads carrying a text of MAX_SIZE bytes as the notes
OversizeHealthRecordPayloads(t) ==
    LET base(m) == [mother_id |-> m, blood_pressure |-> BP_120_80, weight |-> F32(700),
                    symptoms |-> <<>>, notes |-> <<>>, next_appointment |-> t + 1]
    IN { [base(m) EXCEPT !.notes = LongText] : m \in 0..(MaxId - 1) }

\* the ids of the lookups: the first id, and one never allocated
QueryIds == {0, MaxId}

\* the days of get_upcoming_appointments: small ones, and the least that
\* overflows u64 at time t; and whether the build traps on overflow
UpcomingCalls(t) ==
    ({0, 1, 2} \X {FALSE}) \cup ({U64_DAYS - t} \X BOOLEAN)

Init ==
    /\ counter = 0
    /\ profiles = EmptyMap
    /\ records = EmptyMap
    /\ now = StartTime
    /\ ret = [op |-> "none", err |-> "none", val |-> <<>>]
    /\ allocated = <<>>
    /\ fn = [f |-> "none"]
    /\ set_fails = FALSE
    /\ running = [pc |-> 0]

Next ==
    \/ \E payload \in ProfilePayloads(now) : create_mother_profile(payload)
    \/ \E payload \in HealthRecordPayloads(now) : add_health_record(payload)
    \/ \E id \in QueryIds : get_mother_profile(id)
    \/ \E id \in QueryIds : get_mother_health_records(id)
    \/ get_high_risk_profiles
    \/ get_critical_cases
    \/ \E call \in UpcomingCalls(now) :
           get_upcoming_appointments(call[1], call[2])
    \/ Tick

Spec == Init /\ [][Next]_vars

----------------------------------------------------------------------------
(* The pure functions on their own: inputs with what each is expected to    *)
(* parse or match to, read off the Rust semantics of split, trim, parse and *)
(* contains by hand.                                                        *)

\* blood-pressure strings; parsed says whether the string is two integers
\* around one "/", sys and dia are the integers
BloodPressureCases ==
    { [text |-> <<"1", "5", "0", "/", "9", "5">>,
       parsed |-> TRUE, sys |-> 150, dia |-> 95],
      [text |-> <<"1", "2", "0", "/", "8", "0">>,
       parsed |-> TRUE, sys |-> 120, dia |-> 80],
      [text |-> <<"n", "/", "a">>,
       parsed |-> FALSE, sys |-> 0, dia |-> 0],
      [text |-> <<>>,
       parsed |-> FALSE, sys |-> 0, dia |-> 0],
      [text |-> <<"1", "2", "0">>,
       parsed |-> FALSE, sys |-> 0, dia |-> 0],
      [text |-> <<"1", "2", "0", "/", "8", "0", "/", "7", "0">>,
       parsed |-> FALSE, sys |-> 0, dia |-> 0],
      [text |-> <<"1", "4", "0", "/", "8", "0">>,
       parsed |-> TRUE, sys |-> 140, dia |-> 80],
      [text |-> <<"1", "3", "9", "/", "8", "9">>,
       parsed |-> TRUE, sys |-> 139, dia |-> 89],
      [text |-> <<"1", "2", "0", "/", "9", "0">>,
       parsed |-> TRUE, sys |-> 120, dia |-> 90],
      [text |-> <<"9", "0", "/", "6", "0">>,
       parsed |-> TRUE, sys |-> 90, dia |-> 60],
      [text |-> <<"8", "9", "/", "6", "0">>,
       parsed |-> TRUE, sys |-> 89, dia |-> 60],
      [text |-> <<"9", "0", "/", "5", "9">>,
       parsed |-> TRUE, sys |-> 90, dia |-> 59],
      [text |-> <<" ", "1", "2", "0", " ", "/", " ", "8", "0", " ">>,
       parsed |-> TRUE, sys |-> 120, dia |-> 80],
      [text |-> <<" ", "1", "5", "0", "/", " ", "9", "5">>,
       parsed |-> TRUE, sys |-> 150, dia |-> 95],
      [text |-> <<"+", "1", "5", "0", "/", "9", "5">>,
       parsed |-> TRUE, sys |-> 150, dia |-> 95],
      [text |-> <<"-", "5", "/", "8", "0">>,
       parsed |-> TRUE, sys |-> -5, dia |-> 80],
      [text |-> <<"9", "9", "9", "9", "9", "9", "9", "9", "9", "9", "9", "/", "8", "0">>,
       parsed |-> FALSE, sys |-> 0, dia |-> 0],
      [text |-> <<"1", "2", "0", "/">>,
       parsed |-> FALSE, sys |-> 0, dia |-> 0],
      [text |-> <<"/", "8", "0">>,
       parsed |-> FALSE, sys |-> 0, dia |-> 0],
      [text |-> <<"1", " ", "2", "0", "/", "8", "0">>,
       parsed |-> FALSE, sys |-> 0, dia |-> 0],
      [text |-> <<"1", "2", "a", "/", "8", "0">>,
       parsed |-> FALSE, sys |-> 0, dia |-> 0],
      [text |-> <<"2", "1", "4", "7", "4", "8", "3", "6", "4", "7", "/", "8", "0">>,
       parsed |-> TRUE, sys |-> 2147483647, dia |-> 80],
      [text |-> <<"2", "1", "4", "7", "4", "8", "3", "6", "4", "8", "/", "8", "0">>,
       parsed |-> FALSE, sys |-> 0, dia |-> 0],
      [text |-> <<"1", "2", "0", "/", "-", "2", "1", "4", "7", "4", "8", "3", "6", "4", "9">>,
       parsed |-> FALSE, sys |-> 0, dia |-> 0],
      [text |-> <<"+", "/", "8", "0">>,
       parsed |-> FALSE, sys |-> 0, dia |-> 0] }

\* "-2147483648/80": i32::MIN parses, written apart since the literal does not
MinBloodPressureCase ==
    [text |-> <<"-", "2", "1", "4", "7", "4", "8", "3", "6", "4", "8", "/", "8", "0">>,
     parsed |-> TRUE, sys |-> I32_MIN, dia |-> 80]

WeightCases == {F32(-10), F32(400), F32(449), F32(450), F32(700), F32(1000), F32(1001), NaN}

\* symptom lists; critical / concerning say whether some symptom contains a
\* keyword of that set, ignoring case
SymptomCases ==
    { [list |-> <<>>,
       critical |-> FALSE, concerning |-> FALSE],
      [list |-> <<<<"m", "i", "l", "d", " ", "h", "e", "a", "d", "a", "c", "h", "e">>>>,
       critical |-> TRUE, concerning |-> FALSE],
      [list |-> <<<<"S", "e", "v", "e", "r", "e", " ", "B", "l", "e", "e", "d", "i", "n", "g">>>>,
       critical |-> TRUE, concerning |-> FALSE],
      [list |-> <<<<"n", "a", "u", "s", "e", "a">>>>,
       critical |-> FALSE, concerning |-> TRUE],
      [list |-> <<<<"N", "A", "U", "S", "E", "A">>>>,
       critical |-> FALSE, concerning |-> TRUE],
      [list |-> <<<<"t", "i", "r", "e", "d">>>>,
       critical |-> FALSE, concerning |-> FALSE],
      [list |-> <<<<"t", "i", "r", "e", "d">>, <<"f", "e", "v", "e", "r", "i", "s", "h">>>>,
       critical |-> TRUE, concerning |-> FALSE],
      [list |-> <<<<"j", "o", "i", "n", "t", " ", "p", "a", "i", "n">>, <<"F", "E", "V", "E", "R">>>>,
       critical |-> TRUE, concerning |-> TRUE],
      [list |-> <<<<>>>>,
       critical |-> FALSE, concerning |-> FALSE],
      [list |-> <<<<"p", "a", "i", " ", "n">>>>,
       critical |-> FALSE, concerning |-> FALSE],
      [list |-> <<<<"d", "i", "z", "z", "i", "n", "e", "s", "s">>, <<"s", "w", "e", "l", "l", "i", "n", "g">>>>,
       critical |-> FALSE, concerning |-> TRUE] }

\* Each behaviour applies one function to one input
AnalyzeStep ==
    /\ fn.f = "none"
    /\ \E bp \in BloodPressureCases \cup {MinBloodPressureCase},
         w \in WeightCases, s \in SymptomCases :
        LET payload == [mother_id |-> 0, blood_pressure |-> bp.text, weight |-> w,
                        symptoms |-> s.list, notes |-> <<>>, next_appointment |-> 0]
        IN /\ fn' = [f |-> "analyze_health_status", in |-> payload,
                     bp |-> bp, sym |-> s,
                     out |-> analyze_health_status(payload)]
           /\ UNCHANGED <<counter, profiles, records, now, ret, allocated, set_fails, running>>

\* times of the call and delivery dates around every boundary of the table,
\* up to the last whole day of the u64 range
StageTimes == {0, StartTime, 20000}
StageDates(t) ==
    {0, U64_DAYS - 1}
    \cup {t + d : d \in {0, 1, Week - 1, Week, 13 * Week, 14 * Week - 1, 14 * Week,
                         27 * Week, 28 * Week - 1, 28 * Week, 30 * Week}}
    \cup {t - d : d \in {x \in {1, Week} : x <= t}}

StageStep ==
    /\ fn.f = "none"
    /\ \E t \in StageTimes :
        \E edd \in StageDates(t) :
            /\ fn' = [f |-> "calculate_pregnancy_stage",
                      in |-> [edd |-> edd, now |-> t],
                      out |-> calculate_pregnancy_stage(edd, t)]
            /\ UNCHANGED <<counter, profiles, records, now, ret, allocated, set_fails, running>>

NextFn == AnalyzeStep \/ StageStep

SpecFn == Init /\ [][NextFn]_vars

----------------------------------------------------------------------------
(* The update calls under failure: payloads whose encoding exceeds MAX_SIZE *)
(* are submitted too, and writes to the counter cell can fail.              *)

\* Writes to the counter cell start failing, or stop failing
CellFault ==
    /\ set_fails' = ~set_fails
    /\ UNCHANGED <<counter, profiles, records, now, ret, allocated, fn, running>>

NextFault ==
    \/ \E payload \in ProfilePayloads(now) \cup OversizeProfilePayloads(now) :
           create_mother_profile(payload)
    \/ \E payload \in HealthRecordPayloads(now) \cup OversizeHealthRecordPayloads(now) :
           add_health_record(payload)
    \/ CellFault

SpecFault == Init /\ [][NextFault]_vars

----------------------------------------------------------------------------
(* add_health_record statement by statement.  A call runs alone: no other  *)
(* call starts before it has returned or trapped.                          *)

\* The statements of add_health_record with the profile updated after the
\* record is inserted
add_health_record_order_record_first ==
    <<"check", "alloc", "classify", "insert", "update", "return">>

\* The statements of add_health_record in program order: contains_key
\* (lib.rs:222), generate_new_id (231), analyze_health_status and the record
\* (234-246), update_mother_status (249), insert (251), Ok(record) (252)
add_health_record_order ==
    <<"check", "alloc", "classify", "update", "insert", "return">>

\* The call in progress stands before this statement
at(statement) ==
    /\ running.pc # 0
    /\ add_health_record_order[running.pc] = statement

\* The call in progress returns
Return(err, val) ==
    /\ ret' = Response("add_health_record", err, val)
    /\ running' = [pc |-> 0]

\* A call arrives; before holds the cell and the maps as the call found them
add_begin(payload) ==
    /\ running.pc = 0
    /\ counter < MaxId
    /\ running' = [pc |-> 1, payload |-> payload,
                   before |-> [counter |-> counter, profiles |-> profiles,
                               records |-> records, allocated |-> allocated],
                   id |-> 0, record |-> <<>>]
    /\ UNCHANGED <<counter, profiles, records, now, ret, allocated, fn, set_fails>>

add_check ==
    /\ at("check")
    /\ IF running.payload.mother_id \notin DOMAIN profiles
       THEN Return("NotFound", <<>>)
       ELSE /\ running' = [running EXCEPT !.pc = @ + 1]
            /\ UNCHANGED ret
    /\ UNCHANGED <<counter, profiles, records, now, allocated, fn, set_fails>>

add_alloc ==
    /\ at("alloc")
    /\ LET g == generate_new_id(counter) IN
       /\ counter' = g.cell
       /\ IF g.err # "none"
          THEN /\ Return(g.err, <<>>)
               /\ UNCHANGED allocated
          ELSE /\ allocated' = Append(allocated, g.val)
               /\ running' = [running EXCEPT !.pc = @ + 1, !.id = g.val]
               /\ UNCHANGED ret
    /\ UNCHANGED <<profiles, records, now, fn, set_fails>>

add_classify ==
    /\ at("classify")
    /\ LET payload == running.payload
           health_status == analyze_health_status(payload)
           record ==
               [id |-> running.id,
                mother_id |-> payload.mother_id,
                date |-> now,
                blood_pressure |-> payload.blood_pressure,
                weight |-> payload.weight,
                symptoms |-> payload.symptoms,
                notes |-> payload.notes,
                next_appointment |-> payload.next_appointment,
                health_status |-> health_status]
       IN running' = [running EXCEPT !.pc = @ + 1, !.record = record]
    /\ UNCHANGED <<counter, profiles, records, now, ret, allocated, fn, set_fails>>

add_update ==
    /\ at("update")
    /\ LET u == update_mother_status(profiles, running.payload.mother_id,
                                     running.record.health_status, now)
       IN /\ profiles' = u.storage
          /\ IF u.err # "none"
             THEN Return(u.err, <<>>)
             ELSE /\ running' = [running EXCEPT !.pc = @ + 1]
                  /\ UNCHANGED ret
    /\ UNCHANGED <<counter, records, now, allocated, fn, set_fails>>

\* insert panics on a record longer than MAX_SIZE: the call traps and its
\* writes are rolled back
add_insert ==
    /\ at("insert")
    /\ IF HealthRecord_to_bytes_len(running.record) > MAX_SIZE
       THEN /\ counter' = running.before.counter
            /\ profiles' = running.before.profiles
            /\ records' = running.before.records
            /\ allocated' = running.before.allocated
            /\ Return("trap", <<>>)
       ELSE /\ records' = insert(records, running.id, running.record)
            /\ running' = [running EXCEPT !.pc = @ + 1]
            /\ UNCHANGED <<counter, profiles, allocated, ret>>
    /\ UNCHANGED <<now, fn, set_fails>>

add_return ==
    /\ at("return")
    /\ Return("none", running.record)
    /\ UNCHANGED <<counter, profiles, records, now, allocated, fn, set_fails>>

NextSteps ==
    \/ /\ running.pc = 0
       /\ \E payload \in ValidProfilePayloads(now) : create_mother_profile(payload)
    \/ \E payload \in HealthRecordPayloads(now) \cup OversizeHealthRecordPayloads(now) :
           add_begin(payload)
    \/ add_check
    \/ add_alloc
    \/ add_classify
    \/ add_update
    \/ add_insert
    \/ add_return

SpecSteps == Init /\ [][NextSteps]_vars

----------------------------------------------------------------------------
(* Properties *)

Last(seq) == seq[Len(seq)]

\* C1: all ids handed out by generate_new_id are pairwise distinct, across
\* both kinds: every stored profile and health record carries the id it is
\* stored under, no id is a profile and a health record, and each allocation
\* made one new entry.
C1_IdsPairwiseDistinct ==
    /\ \A i, j \in 1..Len(allocated) : i # j => allocated[i] # allocated[j]
    /\ \A k \in DOMAIN profiles : profiles[k].id = k
    /\ \A k \in DOMAIN records : records[k].id = k
    /\ DOMAIN profiles \cap DOMAIN records = {}
    /\ DOMAIN profiles \cup DOMAIN records = {allocated[i] : i \in 1..Len(allocated)}

C1_Witness ==
    /\ Cardinality(DOMAIN profiles) >= 2
    /\ Cardinality(DOMAIN records) >= 2

\* C2 as stated: a successful generate_new_id made with the cell at c persists
\* c + 1 and returns the new value c + 1; the calls start from a cell of 0, so
\* the i-th call returns i and leaves i.
C2_ReturnsNewValue ==
    /\ counter = Len(allocated)
    /\ \A i \in 1..Len(allocated) : allocated[i] = i

\* C2 as amended: a successful generate_new_id made with the cell at c persists
\* c + 1 and returns c, the value Cell::set replaced; the calls start from a
\* cell of 0, so the i-th call returns i - 1 and leaves i, and the handler
\* stores and returns its entity under that id.
C2_ReturnsPriorValue ==
    /\ counter = Len(allocated)
    /\ \A i \in 1..Len(allocated) : allocated[i] = i - 1
    /\ generate_new_id(counter).cell = counter + 1
    /\ generate_new_id(counter).val = counter
    /\ (ret.op # "none" /\ ret.err = "none") => ret.val.id = counter - 1

C2_Witness ==
    /\ allocated = <<0>>
    /\ counter = 1
    /\ ret.err = "none" /\ ret.op = "create_mother_profile" /\ ret.val.id = 0

\* C3: the counter cell never decreases, and an id returned by a creation is
\* greater than every id returned earlier.
C3_IdsStrictlyIncreasing ==
    [][/\ counter' >= counter
       /\ allocated' # allocated =>
             /\ Len(allocated') = Len(allocated) + 1
             /\ \A i \in 1..Len(allocated) :
                   /\ allocated'[i] = allocated[i]
                   /\ allocated[i] < Last(allocated')]_vars

C3_Witness ==
    /\ Len(allocated) >= 3
    /\ profiles # EmptyMap
    /\ records # EmptyMap

\* C4: add_health_record with a mother_id that is no key of the profile map
\* returns NotFound, allocates no id and leaves the counter cell, the profile
\* map and the health-record map as they were.
C4_UnknownMotherRejected ==
    \A payload \in HealthRecordPayloads(now) :
        payload.mother_id \notin DOMAIN profiles =>
            LET r == add_health_record_call(counter, profiles, records, now, payload)
            IN /\ r.ret.err = "NotFound"
               /\ r.ids = <<>>
               /\ r.counter = counter
               /\ r.profiles = profiles
               /\ r.records = records

C4_Witness ==
    /\ ret.op = "add_health_record"
    /\ ret.err = "NotFound"
    /\ profiles # EmptyMap
    /\ records # EmptyMap

\* C5: after a successful add_health_record(payload) the health-record map
\* has a new entry under the allocated id, with mother_id = payload.mother_id
\* and health_status = analyze_health_status(payload); the profile under
\* payload.mother_id has that health_status and last_checkup = the time of the
\* call.
C5_RecordStoredAndProfileUpdated ==
    \A payload \in HealthRecordPayloads(now) :
        LET r == add_health_record_call(counter, profiles, records, now, payload)
            status == analyze_health_status(payload)
        IN r.ret.err = "none" =>
              /\ Len(r.ids) = 1
              /\ LET id == r.ids[1] IN
                 /\ r.ret.val.id = id
                 /\ id \notin DOMAIN records
                 /\ DOMAIN r.records = DOMAIN records \cup {id}
                 /\ r.records[id] = r.ret.val
                 /\ r.records[id].mother_id = payload.mother_id
                 /\ r.records[id].health_status = status
                 /\ payload.mother_id \in DOMAIN r.profiles
                 /\ r.profiles[payload.mother_id].health_status = status
                 /\ r.profiles[payload.mother_id].last_checkup = now

C5_Witness ==
    /\ ret.op = "add_health_record"
    /\ ret.err = "none"
    /\ ret.val.health_status = "Critical"
    /\ records[ret.val.id] = ret.val
    /\ profiles[ret.val.mother_id].health_status = "Critical"
    /\ profiles[ret.val.mother_id].last_checkup = now
    /\ profiles[ret.val.mother_id].created_at < now

\* C6: in every reachable state get_critical_cases and get_high_risk_profiles
\* return exactly the profiles whose stored health_status is Critical, each
\* once, in ascending id order.
C6_CriticalScanExact ==
    LET cases == critical_cases(profiles)
        high == high_risk_profiles(profiles)
    IN /\ high = cases
       /\ \A i \in 1..Len(cases) :
             /\ cases[i].id \in DOMAIN profiles
             /\ cases[i] = profiles[cases[i].id]
             /\ cases[i].health_status = "Critical"
       /\ \A i, j \in 1..Len(cases) : i < j => cases[i].id < cases[j].id
       /\ \A k \in DOMAIN profiles :
             profiles[k].health_status = "Critical"
             => \E i \in 1..Len(cases) : cases[i].id = k

C6_Witness ==
    /\ Len(critical_cases(profiles)) = 2
    /\ critical_cases(profiles)[1].id < critical_cases(profiles)[2].id

\* C7: analyze_health_status applies its checks in priority order: blood
\* pressure that parses as two integers with systolic >= 140, diastolic >= 90,
\* systolic < 90 or diastolic < 60 gives Critical whatever the rest; otherwise
\* weight < 45 or weight > 100 gives NeedsAttention whatever the symptoms;
\* otherwise a critical keyword gives Critical; otherwise a concerning keyword
\* gives NeedsAttention; otherwise Normal.  Weights 45 and 100 do not trigger
\* the weight step.
C7_StatusPrecedence ==
    fn.f = "analyze_health_status" =>
        LET w == fn.in.weight
            pressure == /\ fn.bp.parsed
                        /\ \/ fn.bp.sys >= 140
                           \/ fn.bp.dia >= 90
                           \/ fn.bp.sys < 90
                           \/ fn.bp.dia < 60
            weight == ~w.nan /\ (w.tenths < 450 \/ w.tenths > 1000)
        IN /\ pressure => fn.out = "Critical"
           /\ ~pressure /\ weight => fn.out = "NeedsAttention"
           /\ ~pressure /\ ~weight /\ fn.sym.critical => fn.out = "Critical"
           /\ ~pressure /\ ~weight /\ ~fn.sym.critical /\ fn.sym.concerning
                 => fn.out = "NeedsAttention"
           /\ ~pressure /\ ~weight /\ ~fn.sym.critical /\ ~fn.sym.concerning
                 => fn.out = "Normal"
           /\ ~pressure /\ w = F32(450) /\ ~fn.sym.critical /\ ~fn.sym.concerning
                 => fn.out = "Normal"
           /\ ~pressure /\ w = F32(1000) /\ ~fn.sym.critical /\ ~fn.sym.concerning
                 => fn.out = "Normal"

\* weight 40 with a critical keyword and unparsable blood pressure: the weight
\* step answers before the symptoms are read
C7_Witness ==
    /\ fn.f = "analyze_health_status"
    /\ ~fn.bp.parsed
    /\ fn.in.weight = F32(400)
    /\ fn.sym.critical
    /\ fn.out = "NeedsAttention"

\* C8: calculate_pregnancy_stage(edd) takes weeks = max(0, edd - now) divided
\* by one week and returns PostPartum for 0 weeks (every edd <= now included),
\* ThirdTrimester for 1..13, SecondTrimester for 14..27, FirstTrimester from
\* 28 on; edd = now gives PostPartum and edd = now + 30 weeks FirstTrimester.
C8_StageTable ==
    fn.f = "calculate_pregnancy_stage" =>
        LET diff == fn.in.edd - fn.in.now
            weeks == (IF diff > 0 THEN diff ELSE 0) \div Week
        IN /\ fn.out \in {"PostPartum", "ThirdTrimester", "SecondTrimester",
                          "FirstTrimester"}
           /\ fn.out = "PostPartum" <=> weeks = 0
           /\ fn.out = "ThirdTrimester" <=> (1 <= weeks /\ weeks <= 13)
           /\ fn.out = "SecondTrimester" <=> (14 <= weeks /\ weeks <= 27)
           /\ fn.out = "FirstTrimester" <=> weeks >= 28
           /\ fn.in.edd <= fn.in.now => fn.out = "PostPartum"
           /\ fn.in.edd = fn.in.now + 30 * Week => fn.out = "FirstTrimester"

C8_Witness ==
    /\ fn.f = "calculate_pregnancy_stage"
    /\ fn.in.edd = fn.in.now + 14 * Week
    /\ fn.out = "SecondTrimester"

\* create_mother_profile, for each of the payloads, returns InvalidInput and
\* writes nothing when age is outside 13..65, blood_type is none of the 8
\* strings, the delivery date is not after now, or emergency_contact is
\* blank; otherwise it allocates an id and stores under it a profile with
\* health_status Normal and stage =
\* calculate_pregnancy_stage(expected_delivery_date), which a following
\* get_mother_profile(id) returns.
ValidatesThenStores(payloads) ==
    \A payload \in payloads :
        LET r == create_mother_profile_call(counter, profiles, records, now, payload)
        IN IF \/ payload.age \notin 13..65
              \/ payload.blood_type \notin
                    {"A+", "A-", "B+", "B-", "AB+", "AB-", "O+", "O-"}
              \/ payload.expected_delivery_date <= now
              \/ \A i \in 1..Len(payload.emergency_contact) :
                    IsWhitespace(payload.emergency_contact[i])
           THEN /\ r.ret.err = "InvalidInput"
                /\ r.ids = <<>>
                /\ r.counter = counter
                /\ r.profiles = profiles
                /\ r.records = records
           ELSE /\ r.ret.err = "none"
                /\ Len(r.ids) = 1
                /\ r.counter # counter
                /\ r.records = records
                /\ LET id == r.ids[1] IN
                   /\ id \notin DOMAIN profiles
                   /\ DOMAIN r.profiles = DOMAIN profiles \cup {id}
                   /\ \A k \in DOMAIN profiles : r.profiles[k] = profiles[k]
                   /\ r.profiles[id].id = id
                   /\ r.profiles[id].health_status = "Normal"
                   /\ r.profiles[id].stage =
                          calculate_pregnancy_stage(payload.expected_delivery_date, now)
                   /\ r.profiles[id].age = payload.age
                   /\ r.profiles[id].name = payload.name
                   /\ r.profiles[id].blood_type = payload.blood_type
                   /\ r.profiles[id].expected_delivery_date =
                          payload.expected_delivery_date
                   /\ r.profiles[id].emergency_contact = payload.emergency_contact
                   /\ r.ret.val = r.profiles[id]
                   /\ mother_profile(r.profiles, id) =
                          [err |-> "none", val |-> r.ret.val]

\* C9: create_mother_profile validates, then allocates and stores, for every
\* payload: those whose profile fits the codec's bound and those that pass
\* validation with a text of MAX_SIZE bytes.
C9_CreateValidatesThenStores ==
    ValidatesThenStores(ProfilePayloads(now) \cup MoreValidProfilePayloads(now)
                           \cup OversizeProfilePayloads(now))

\* The same for the payloads whose profile encodes within MAX_SIZE
C9_WithinBound ==
    ValidatesThenStores(ProfilePayloads(now) \cup MoreValidProfilePayloads(now))

\* a profile accepted at the upper age bound, after a rejected and an
\* accepted call
C9_Witness ==
    /\ ret.op = "create_mother_profile"
    /\ ret.err = "none"
    /\ ret.val.age = 65
    /\ ret.val.stage = "FirstTrimester"
    /\ ret.val.id >= 1
    /\ mother_profile(profiles, ret.val.id).val = ret.val

\* The (profile, record) pairs of the records due between t (exclusive) and
\* the upper end, in ascending record id, a record with no profile left out
DuePairs(t, upper, inclusive) ==
    LET due == {k \in DOMAIN records :
                   /\ records[k].next_appointment > t
                   /\ IF inclusive
                      THEN records[k].next_appointment <= upper
                      ELSE records[k].next_appointment < upper
                   /\ records[k].mother_id \in DOMAIN profiles}
        keys == ascending(due)
    IN [i \in 1..Len(keys) |-> <<profiles[records[keys[i]].mother_id], records[keys[i]]>>]

RecordsOf(mother_id) == {k \in DOMAIN records : records[k].mother_id = mother_id}

\* C11: get_mother_health_records(mother_id) returns NotFound exactly when no
\* stored record has that mother_id (a profile without records included), and
\* otherwise exactly the stored records with that mother_id, each once, in
\* ascending record id.
C11_RecordsOfMother ==
    \A mother_id \in 0..MaxId :
        LET r == mother_health_records(records, mother_id)
            owned == RecordsOf(mother_id)
        IN /\ r.err \in {"none", "NotFound"}
           /\ r.err = "NotFound" <=> owned = {}
           /\ r.err = "none" =>
                 /\ Len(r.val) = Cardinality(owned)
                 /\ \A i \in 1..Len(r.val) :
                       /\ r.val[i].id \in owned
                       /\ r.val[i] = records[r.val[i].id]
                 /\ \A i, j \in 1..Len(r.val) : i < j => r.val[i].id < r.val[j].id

\* one mother has two records, returned oldest first, and another profile,
\* created between them, has none
C11_Witness ==
    \E m, e \in DOMAIN profiles :
        /\ Cardinality(RecordsOf(m)) = 2
        /\ \E a, b \in RecordsOf(m) : a < e /\ e < b
        /\ Len(mother_health_records(records, m).val) = 2
        /\ mother_health_records(records, m).val[1].id
              < mother_health_records(records, m).val[2].id
        /\ RecordsOf(e) = {}
        /\ mother_health_records(records, e).err = "NotFound"

\* C12: a stored health record is never changed or removed: every step leaves
\* every entry of the health-record map as it was, its health_status included,
\* whatever happens to the profile of its mother.
C12_RecordsImmutable ==
    [][\A k \in DOMAIN records :
          /\ k \in DOMAIN records'
          /\ records'[k] = records[k]]_vars

\* a record keeps the status Critical after its mother's profile went back to
\* Normal
C12_Witness ==
    \E k \in DOMAIN records :
        /\ records[k].health_status = "Critical"
        /\ profiles[records[k].mother_id].health_status = "Normal"
        /\ records[k].date < now

\* C13: a stored profile is never removed and keeps its id, name, age,
\* blood_type, expected_delivery_date, stage, created_at, medical_history and
\* emergency_contact; health_status and last_checkup change only in a
\* successful add_health_record for that profile's id.
C13_ProfileFrame ==
    [][\A k \in DOMAIN profiles :
          /\ k \in DOMAIN profiles'
          /\ profiles'[k].id = profiles[k].id
          /\ profiles'[k].name = profiles[k].name
          /\ profiles'[k].age = profiles[k].age
          /\ profiles'[k].blood_type = profiles[k].blood_type
          /\ profiles'[k].expected_delivery_date = profiles[k].expected_delivery_date
          /\ profiles'[k].stage = profiles[k].stage
          /\ profiles'[k].created_at = profiles[k].created_at
          /\ profiles'[k].medical_history = profiles[k].medical_history
          /\ profiles'[k].emergency_contact = profiles[k].emergency_contact
          /\ (\/ profiles'[k].health_status # profiles[k].health_status
              \/ profiles'[k].last_checkup # profiles[k].last_checkup)
             => /\ ret'.op = "add_health_record"
                /\ ret'.err = "none"
                /\ ret'.val.mother_id = k
                /\ ret'.val.id \notin DOMAIN records
                /\ ret'.val.id \in DOMAIN records']_vars

\* a profile updated by a checkup a day after its creation keeps the stage of
\* its creation although its delivery date is now one trimester nearer
C13_Witness ==
    \E k \in DOMAIN profiles :
        /\ profiles[k].stage = "FirstTrimester"
        /\ calculate_pregnancy_stage(profiles[k].expected_delivery_date, now)
              = "SecondTrimester"
        /\ profiles[k].health_status = "Critical"
        /\ profiles[k].last_checkup > profiles[k].created_at

\* C15: every stored health record names a stored profile, so
\* update_mother_status finds the profile whenever add_health_record reaches
\* it (NotFound comes from the existence check alone, before any id is taken),
\* and get_upcoming_appointments returns a pair for every record that is due.
C15_ReferentialIntegrity ==
    /\ \A k \in DOMAIN records : records[k].mother_id \in DOMAIN profiles
    /\ \A payload \in HealthRecordPayloads(now) :
          LET r == add_health_record_call(counter, profiles, records, now, payload)
          IN /\ payload.mother_id \in DOMAIN profiles =>
                   /\ update_mother_status(profiles, payload.mother_id,
                                           analyze_health_status(payload), now).err
                         = "none"
                   /\ r.ret.err = "none"
                   /\ r.records[r.ids[1]].mother_id \in DOMAIN r.profiles
             /\ r.ret.err = "NotFound" =>
                   /\ payload.mother_id \notin DOMAIN profiles
                   /\ r.ids = <<>>
    /\ \A days \in 0..2 :
          Len(upcoming_appointments(records, profiles, now, days, FALSE).val)
             = Cardinality({k \in DOMAIN records :
                               /\ records[k].next_appointment > now
                               /\ records[k].next_appointment <= now + days})

\* records of two mothers are stored and both are returned as due
C15_Witness ==
    /\ Cardinality({records[k].mother_id : k \in DOMAIN records}) = 2
    /\ Len(upcoming_appointments(records, profiles, now, 1, FALSE).val) = 2
    /\ ret.op = "add_health_record"
    /\ ret.err = "none"

\* The greatest key of a non-empty set of keys
Greatest(keys) == CHOOSE k \in keys : \A other \in keys : other <= k

\* C18: every stored profile has the health_status of the record with the
\* greatest id among the records of its mother_id, and Normal when there is
\* none.
C18_ProfileMirrorsLatestRecord ==
    \A k \in DOMAIN profiles :
        IF RecordsOf(k) = {}
        THEN profiles[k].health_status = "Normal"
        ELSE /\ profiles[k].health_status = records[Greatest(RecordsOf(k))].health_status
             /\ profiles[k].last_checkup = records[Greatest(RecordsOf(k))].date

\* a Normal record after a Critical one has cleared the profile's status
C18_Witness ==
    \E k \in DOMAIN profiles :
        /\ Cardinality(RecordsOf(k)) = 2
        /\ \E a \in RecordsOf(k) :
              /\ a < Greatest(RecordsOf(k))
              /\ records[a].health_status = "Critical"
        /\ records[Greatest(RecordsOf(k))].health_status = "Normal"
        /\ profiles[k].health_status = "Normal"

\* C19: every key of the profile map and of the health-record map is less
\* than the value of the counter cell, so the id the next generate_new_id
\* returns is a key of neither map and the insert of a creation adds an entry
\* without replacing one.
C19_KeysBelowCounter ==
    LET keys == DOMAIN profiles \cup DOMAIN records IN
    /\ \A k \in keys : k < counter
    /\ generate_new_id(counter).val \notin keys
    /\ \A payload \in ProfilePayloads(now) :
          LET r == create_mother_profile_call(counter, profiles, records, now, payload)
          IN r.ids # <<>> =>
                /\ r.ids[1] \notin keys
                /\ DOMAIN r.profiles = DOMAIN profiles \cup {r.ids[1]}
                /\ \A k \in DOMAIN profiles : r.profiles[k] = profiles[k]
    /\ \A payload \in HealthRecordPayloads(now) :
          LET r == add_health_record_call(counter, profiles, records, now, payload)
          IN r.ids # <<>> =>
                /\ r.ids[1] \notin keys
                /\ DOMAIN r.records = DOMAIN records \cup {r.ids[1]}
                /\ \A k \in DOMAIN records : r.records[k] = records[k]

C19_Witness ==
    /\ counter = 3
    /\ DOMAIN profiles \cup DOMAIN records = {0, 1, 2}
    /\ DOMAIN profiles # {}
    /\ DOMAIN records # {}

\* A query call has left the counter cell and both maps as they are
StoresKept(q) ==
    /\ q.counter = counter
    /\ q.profiles = profiles
    /\ q.records = records

\* C20: the five queries leave the counter cell, the profile map and the
\* health-record map unchanged whatever they reply, and
\* get_mother_profile(id) replies with the stored profile when id is a key of
\* the profile map and with NotFound otherwise.
C20_QueriesReadOnly ==
    /\ \A id \in 0..MaxId :
          /\ StoresKept(get_mother_profile_call(counter, profiles, records, id))
          /\ StoresKept(get_mother_health_records_call(counter, profiles, records, id))
          /\ LET reply == get_mother_profile_call(counter, profiles, records, id).reply
             IN IF id \in DOMAIN profiles
                THEN reply = [err |-> "none", val |-> profiles[id]]
                ELSE reply.err = "NotFound"
    /\ StoresKept(get_high_risk_profiles_call(counter, profiles, records))
    /\ StoresKept(get_critical_cases_call(counter, profiles, records))
    /\ \A call \in UpcomingCalls(now) :
          StoresKept(get_upcoming_appointments_call(counter, profiles, records, now,
                                                    call[1], call[2]))

\* get_mother_profile finds a profile updated by a checkup, and replies
\* NotFound for the id of a health record
C20_Witness ==
    \E id \in DOMAIN profiles, k \in DOMAIN records :
        /\ mother_profile(profiles, id).val.health_status = "Critical"
        /\ mother_profile(profiles, k).err = "NotFound"
        /\ mother_health_records(records, id).err = "none"
        /\ mother_health_records(records, k).err = "NotFound"

\* C17: for every payload that create_mother_profile accepts after
\* validation and every payload that add_health_record accepts for an
\* existing mother, the value handed to insert encodes to at most MAX_SIZE
\* bytes: no such call traps in the bounded codec.
C17_EncodingFitsBound ==
    /\ \A payload \in ProfilePayloads(now) \cup MoreValidProfilePayloads(now)
                         \cup OversizeProfilePayloads(now) :
          validate_mother_profile(payload, now) = "none" =>
              create_mother_profile_call(counter, profiles, records, now, payload)
                  .ret.err # "trap"
    /\ \A payload \in HealthRecordPayloads(now) \cup OversizeHealthRecordPayloads(now) :
          payload.mother_id \in DOMAIN profiles =>
              add_health_record_call(counter, profiles, records, now, payload)
                  .ret.err # "trap"
    /\ ret.err # "trap"

\* add_health_record has trapped on a record too long for the codec, for a
\* stored mother
C17_Witness ==
    /\ ret.op = "add_health_record"
    /\ ret.err = "trap"
    /\ profiles # EmptyMap

\* C14: an update call that returns an error (InvalidInput, NotFound, or
\* SystemError when the write to the counter cell fails) leaves the counter
\* cell and both maps as they were and takes no id; between calls every id
\* taken has its entry in one of the maps, and a profile that a checkup has
\* updated has the record of that checkup.
C14_AllOrNothing ==
    /\ \A payload \in ProfilePayloads(now) \cup OversizeProfilePayloads(now) :
          LET r == create_mother_profile_call(counter, profiles, records, now, payload)
          IN /\ r.ret.err \in {"none", "InvalidInput", "SystemError", "trap"}
             /\ r.ret.err # "none" =>
                   /\ r.counter = counter
                   /\ r.profiles = profiles
                   /\ r.records = records
                   /\ r.ids = <<>>
             /\ (validate_mother_profile(payload, now) = "none" /\ set_fails)
                   => r.ret.err = "SystemError"
    /\ \A payload \in HealthRecordPayloads(now) \cup OversizeHealthRecordPayloads(now) :
          LET r == add_health_record_call(counter, profiles, records, now, payload)
          IN /\ r.ret.err \in {"none", "NotFound", "SystemError", "trap"}
             /\ r.ret.err # "none" =>
                   /\ r.counter = counter
                   /\ r.profiles = profiles
                   /\ r.records = records
                   /\ r.ids = <<>>
             /\ (payload.mother_id \in DOMAIN profiles /\ set_fails)
                   => r.ret.err = "SystemError"
    /\ counter = Len(allocated)
    /\ \A i \in 1..Len(allocated) :
          allocated[i] \in DOMAIN profiles \cup DOMAIN records
    /\ \A k \in DOMAIN profiles :
          (\/ profiles[k].health_status # "Normal"
           \/ profiles[k].last_checkup # profiles[k].created_at)
          => \E id \in DOMAIN records :
                /\ records[id].mother_id = k
                /\ records[id].date = profiles[k].last_checkup
                /\ records[id].health_status = profiles[k].health_status

\* add_health_record for a stored mother has returned SystemError, after a
\* checkup of hers was stored
C14_Witness ==
    /\ ret.op = "add_health_record"
    /\ ret.err = "SystemError"
    /\ set_fails
    /\ \E id \in DOMAIN records :
          profiles[records[id].mother_id].health_status = "Critical"

\* C16 as stated: inside add_health_record the record is stored before the
\* profile is updated: in no state of a call in progress does the profile
\* differ from the one the call found while the record is not yet stored.
C16_RecordBeforeProfile ==
    (running.pc # 0 /\ profiles # running.before.profiles)
        => running.id \in DOMAIN records

\* C16 as amended: inside add_health_record the id is allocated after the
\* existence check has passed, the profile is updated after the id is
\* allocated and the record classified, and the record is stored last: in no
\* state of a call in progress is the record stored while the profile does
\* not yet have its health_status and the time of the call as last_checkup.
C16_ProfileBeforeRecord ==
    running.pc # 0 =>
        LET payload == running.payload
            before == running.before
        IN /\ counter # before.counter =>
                 /\ payload.mother_id \in DOMAIN before.profiles
                 /\ counter = before.counter + 1
                 /\ running.id = before.counter
           /\ profiles # before.profiles =>
                 /\ counter # before.counter
                 /\ running.record # <<>>
                 /\ running.record.health_status = analyze_health_status(payload)
                 /\ profiles[payload.mother_id].health_status
                       = running.record.health_status
                 /\ profiles[payload.mother_id].last_checkup = now
           /\ records # before.records =>
                 /\ counter # before.counter
                 /\ running.id \notin DOMAIN before.records
                 /\ records[running.id] = running.record
                 /\ profiles[payload.mother_id].health_status
                       = running.record.health_status
                 /\ profiles[payload.mother_id].last_checkup = now

\* the profile already has the status Critical of the checkup in progress and
\* the record is not yet stored
C16_Witness ==
    /\ running.pc # 0
    /\ add_health_record_order[running.pc] = "insert"
    /\ running.before.profiles[running.payload.mother_id].health_status = "Normal"
    /\ profiles[running.payload.mother_id].health_status = "Critical"
    /\ running.id \notin DOMAIN records

====
